---- MODULE Spec2Model ----
(***************************************************************************)
(* The f3fs shrinker (src/f2fs/shrinker.c): the registry of mounted        *)
(* instances (f3fs_list, f3fs_list_lock, shrinker_run_no), the count and   *)
(* scan walks, and the join/leave hooks, with the threads that call them.  *)
(*                                                                         *)
(* One action is one atomic step of one thread.  Steps that only touch     *)
(* state protected by f3fs_list_lock are taken together with the           *)
(* spin_lock that precedes them; every access outside the spin lock (the   *)
(* stamp of sbi->shrinker_run_no, each cache call) is a step of its own.   *)
(***************************************************************************)
EXTENDS Integers, Sequences, FiniteSets, TLC

(* ------------------------------ bounds -------------------------------- *)
\* most objects a cache holds initially
MaxCache == 2
\* largest sc->nr_to_scan the concurrent workload passes
MaxTarget == 2
\* scan invocations of the sequential workload
MaxCalls == 3
\* width of the "unsigned int" run number (shrinker_run_no wraps at 2^RunNoBits)
RunNoBits == 2
\* width of the "unsigned int" counter nid_cnt[FREE_NID]; a long is twice as wide
NidBits == 12

(* ---------------------------- constants ------------------------------- *)
\* low watermark of the free nid cache (NAT_ENTRY_PER_BLOCK * FREE_NID_PAGES)
MAX_FREE_NIDS == 3640

HEAD == 0                       \* &f3fs_list, the list head
NoThread == 0                   \* a lock nobody holds
Sbs == {1, 2, 3}                \* the instances (their s_list nodes)
Nodes == {HEAD} \cup Sbs
Threads == {1, 2, 3}            \* the kernel threads that call the shrinker

VARIABLES
    f3fs_list,          \* [next, prev]: the links of f3fs_list and every s_list
    f3fs_list_lock,     \* the thread holding the spin lock, or NoThread
    shrinker_run_no,    \* the global run counter
    drawn,              \* how many run numbers scans have drawn so far
    sb,                 \* per instance: umount_mutex, shrinker_run_no, caches
                        \* (and stamp_seq: the how-manieth draw it was that
                        \* gave the run number the record carries)
    th,                 \* per thread: pc and the locals of the running call
    life,               \* per instance: "absent" (not part of the workload),
                        \* "new", "joining", "mounted", "umounting", "gone"
    budget,             \* the calls the workload may still start: how many
                        \* counts and scans, the nr_to_scan values passed,
                        \* whether a scan snapshots the registry total, and
                        \* whether log and nvisit are kept
    mode,               \* how the caches answer a shrink request
    call,               \* per thread: the current (or last) call and its result
    log,                \* per thread: the cache operations its call issued
    busy,               \* per thread: gates held by others since its call began
    nvisit              \* per instance: scan visits since membership changed

vars == <<f3fs_list, f3fs_list_lock, shrinker_run_no, drawn, sb, th, life,
          budget, mode, call, log, busy, nvisit>>

Min(a, b) == IF a <= b THEN a ELSE b
Max(a, b) == IF a >= b THEN a ELSE b

RECURSIVE Pow2(_)
Pow2(n) == IF n = 0 THEN 1 ELSE 2 * Pow2(n - 1)

RECURSIVE SumOver(_, _)
SumOver(f, S) ==
    IF S = {} THEN 0
    ELSE LET x == CHOOSE y \in S : TRUE IN f[x] + SumOver(f, S \ {x})

(* --------------------------- list helpers ----------------------------- *)
\* (mutant) list_add: the record is linked right after the head
ListAddHead(L, new) ==
    LET first == L.next[HEAD] IN
    [next |-> [[L.next EXCEPT ![HEAD] = new] EXCEPT ![new] = first],
     prev |-> [[L.prev EXCEPT ![first] = new] EXCEPT ![new] = HEAD]]

\* list_add_tail(new, &f3fs_list)
ListAddTail(L, new) ==
    LET last == L.prev[HEAD] IN
    [next |-> [[L.next EXCEPT ![last] = new] EXCEPT ![new] = HEAD],
     prev |-> [[L.prev EXCEPT ![HEAD] = new] EXCEPT ![new] = last]]

\* __list_del_entry(entry)
ListDelEntry(L, e) ==
    LET n == L.next[e]
        q == L.prev[e] IN
    [next |-> [L.next EXCEPT ![q] = n],
     prev |-> [L.prev EXCEPT ![n] = q]]

\* (mutant) the record is not unlinked
ListKeep(L, e) == L

\* list_del_init(entry)
ListDelInit(L, e) ==
    LET D == ListDelEntry(L, e) IN
    [next |-> [D.next EXCEPT ![e] = e],
     prev |-> [D.prev EXCEPT ![e] = e]]

\* (mutant) the record is left where it is
ListStay(L, e) == L

\* (mutant) list_add_tail without unlinking the record first
ListReAdd(L, e) == ListAddTail(L, e)

\* list_move_tail(entry, &f3fs_list)
ListMoveTail(L, e) == ListAddTail(ListDelEntry(L, e), e)

\* the registry as a sequence: the nodes met from f3fs_list.next up to the head
RECURSIVE Walk(_, _, _)
Walk(L, n, fuel) ==
    IF n = HEAD \/ fuel = 0 THEN <<>>
    ELSE <<n>> \o Walk(L, L.next[n], fuel - 1)

Registry == Walk(f3fs_list, f3fs_list.next[HEAD], Cardinality(Sbs) + 1)
Members == {Registry[k] : k \in 1..Len(Registry)}

(* ------------------------- cache resources ---------------------------- *)
\* (mutant) dirty entries are counted as well
CountAllNats(s) ==
    sb[s].nat_cnt.RECLAIMABLE_NAT + sb[s].nat_cnt.DIRTY_NAT

\* __count_nat_entries
CountNatEntries(s) == sb[s].nat_cnt.RECLAIMABLE_NAT

\* the integer types of __count_free_nids: nid_cnt[] is unsigned int,
\* MAX_FREE_NIDS is unsigned long (it is a multiple of a sizeof), count is long
UIntMax == Pow2(NidBits) - 1
LongBits == 2 * NidBits
ULongMod == Pow2(LongBits)

\* a difference computed in unsigned long: modulo 2^LongBits
ULongSub(a, b) == (a - b) % ULongMod

\* (mutant) the difference is kept in an unsigned long
ULongKeep(u) == u

\* an unsigned long stored in a long: values from 2^(LongBits-1) on are negative
ToLong(u) == IF u >= ULongMod \div 2 THEN u - ULongMod ELSE u

\* __count_free_nids
CountFreeNids(s) ==
    LET count == ToLong(ULongSub(sb[s].nid_cnt.FREE_NID, MAX_FREE_NIDS)) IN
    IF count > 0 THEN count ELSE 0

\* __count_extent_cache
CountExtentCache(s) == sb[s].total_zombie_tree + sb[s].total_ext_node

\* what a cache holding avail objects may free when asked for req
ShrinkOutcomes(avail, req) ==
    CASE mode = "exact" -> {Min(avail, req)}
      [] mode = "fewer" -> 0..Min(avail, req)
      [] mode = "more"  -> {Min(avail, req), Min(avail, req + 1)}

\* f3fs_shrink_extent_tree freed got objects: zombie trees first, then nodes
AfterShrinkExtent(s, got) ==
    LET z == Min(sb[s].total_zombie_tree, got) IN
    [sb EXCEPT ![s].total_zombie_tree = @ - z,
               ![s].total_ext_node = @ - (got - z)]

\* f3fs_try_to_free_nats freed got clean entries
AfterFreeNats(s, got) ==
    [sb EXCEPT ![s].nat_cnt.RECLAIMABLE_NAT = @ - got]

\* f3fs_try_to_free_nids freed got free nids above the watermark
AfterFreeNids(s, got) ==
    [sb EXCEPT ![s].nid_cnt.FREE_NID = @ - got]

(* ------------------------------ threads ------------------------------- *)
\* a thread outside the shrinker: no call is running, the locals are dead
\* (pre is not a local of the code: it keeps what the registry held when the
\* call began, for as long as the call runs)
\* (nskip and was are not locals either: nskip counts the records the running
\* scan has skipped, and stays at SkipCap once it has got there; was keeps the
\* registry as the scan found it when it took the lock; moved holds, for a
\* running count, the records it has counted that a scan has moved to the
\* tail since the count last counted them; seq tells the how-manieth draw of
\* a run number the draw of the running scan was)
IdleTh == [pc |-> "idle", p |-> HEAD, count |-> 0, freed |-> 0, nr |-> 0,
           run_no |-> 0, seq |-> 0, pre |-> 0, nskip |-> 0, was |-> <<>>,
           moved |-> {}]
NoCall == [op |-> "none", arg |-> 0, done |-> TRUE, ret |-> 0]

\* what count would credit for instance s, and for the whole registry
Reclaimable(s) == CountExtentCache(s) + CountNatEntries(s) + CountFreeNids(s)
TotalReclaimable ==
    SumOver([s \in Sbs |-> Reclaimable(s)], Members)

\* one more than the registry can hold: where the skip count stops counting
SkipCap == Cardinality(Sbs) + 1

Holds(t) == f3fs_list_lock = t
LockFree == f3fs_list_lock = NoThread
GateFree(s) == sb[s].umount_mutex = NoThread

\* (mutant) spin_unlock is missing: t keeps the lock
SpinKeep(t) == t

\* f3fs_list_lock after thread t's spin_unlock
SpinUnlock(t) == NoThread

\* (mutant) mutex_unlock is missing: t keeps the gate
MutexKeep(t) == t

\* sbi->umount_mutex after thread t's mutex_unlock
MutexUnlock(t) == NoThread

\* (mutant) a trylock that reports success whoever holds the gate
TrylockAlways(s) == TRUE

\* (mutant) a blocking mutex_lock: the walker never gives up on a held gate
TrylockNever(s) == FALSE

\* the two outcomes of mutex_trylock(&sbi->umount_mutex) on instance s
TrylockOk(s) == GateFree(s)
TrylockFails(s) == ~GateFree(s)

\* (mutant) the cursor is not advanced
NextStay(p) == p

\* p->next
NextOf(p) == f3fs_list.next[p]

\* the cache operation a thread's call issues is recorded with the amount
\* requested, the freed total before it and the amount the cache returned
Logged(t, op, s, req, got) ==
    IF budget.trace
    THEN [log EXCEPT ![t] = Append(@, [op |-> op, sbi |-> s, req |-> req,
                                       before |-> th[t].freed, got |-> got])]
    ELSE log

\* how many times the count call of thread t has added record s to its total
NCounted(t, s) ==
    Len(SelectSeq(log[t], LAMBDA e : e.op = "count" /\ e.sbi = s))

\* thread t moves record s to the tail: every running count of another thread
\* that has counted s already notes that s stands behind its cursor again
MovedBy(t, s) ==
    [u \in Threads |->
        IF /\ u # t /\ budget.snap
           /\ call[u].op = "count" /\ ~call[u].done
           /\ NCounted(u, s) >= 1
        THEN [th[u] EXCEPT !.moved = @ \cup {s}]
        ELSE th[u]]

\* gate s was released: no running call has seen it held throughout
Released(s) ==
    [u \in Threads |-> IF call[u].done THEN busy[u] ELSE busy[u] \ {s}]

\* (mutant) ++shrinker_run_no without the loop that skips 0
NextRunNoOnce(n) == (n + 1) % Pow2(RunNoBits)

\* ++shrinker_run_no on an unsigned int of RunNoBits bits, until non-zero
NextRunNo(n) ==
    LET m == (n + 1) % Pow2(RunNoBits) IN
    IF m = 0 THEN (m + 1) % Pow2(RunNoBits) ELSE m

(* ------------------------- f3fs_shrink_count -------------------------- *)
\* the reclaim framework calls f3fs_shrink_count
StartCount(t) ==
    /\ th[t].pc = "idle"
    /\ budget.count > 0
    /\ budget' = [budget EXCEPT !.count = @ - 1]
    /\ th' = [th EXCEPT ![t] = [IdleTh EXCEPT !.pc = "c_lock"]]
    /\ call' = [call EXCEPT ![t] = [op |-> "count", arg |-> 0, done |-> FALSE,
                                    ret |-> 0]]
    /\ log' = [log EXCEPT ![t] = <<>>]
    /\ busy' = [busy EXCEPT ![t] = {s \in Sbs : ~GateFree(s)}]
    /\ UNCHANGED <<f3fs_list, f3fs_list_lock, shrinker_run_no, sb, life, mode, drawn,
                   nvisit>>

\* lines 44-45: spin_lock; p = f3fs_list.next
CountLock(t) ==
    /\ th[t].pc = "c_lock"
    /\ LockFree
    /\ f3fs_list_lock' = t
    /\ th' = [th EXCEPT ![t].pc = "c_loop", ![t].p = f3fs_list.next[HEAD],
                        ![t].count = 0]
    /\ UNCHANGED <<f3fs_list, shrinker_run_no, sb, life, budget, mode, drawn, call,
                   log, busy, nvisit>>

\* lines 46, 69-70: the walk is back at the head: spin_unlock; return count
CountDone(t) ==
    /\ th[t].pc = "c_loop"
    /\ Holds(t)
    /\ th[t].p = HEAD
    /\ f3fs_list_lock' = SpinUnlock(t)
    /\ call' = [call EXCEPT ![t].done = TRUE, ![t].ret = th[t].count]
    /\ th' = [th EXCEPT ![t] = IdleTh]
    /\ UNCHANGED <<f3fs_list, shrinker_run_no, sb, life, budget, mode, drawn, log,
                   busy, nvisit>>

\* lines 50-53: mutex_trylock fails: p = p->next; continue
CountSkip(t) ==
    /\ th[t].pc = "c_loop"
    /\ Holds(t)
    /\ th[t].p # HEAD
    /\ TrylockFails(th[t].p)
    /\ th' = [th EXCEPT ![t].p = NextOf(th[t].p)]
    /\ log' = Logged(t, "skip", th[t].p, 0, 0)
    /\ UNCHANGED <<f3fs_list, f3fs_list_lock, shrinker_run_no, sb, life,
                   budget, mode, drawn, call, busy, nvisit>>

\* lines 50, 54: mutex_trylock succeeds; spin_unlock
CountAcquire(t) ==
    /\ th[t].pc = "c_loop"
    /\ Holds(t)
    /\ th[t].p # HEAD
    /\ TrylockOk(th[t].p)
    /\ sb' = [sb EXCEPT ![th[t].p].umount_mutex = t]
    /\ f3fs_list_lock' = SpinUnlock(t)
    /\ th' = [th EXCEPT ![t].pc = "c_count"]
    /\ UNCHANGED <<f3fs_list, shrinker_run_no, life, budget, mode, drawn, call, log,
                   busy, nvisit>>

\* lines 57-63: count += extent cache + clean nat entries + free nids
CountCaches(t) ==
    /\ th[t].pc = "c_count"
    /\ LET s == th[t].p
           c == CountExtentCache(s) + CountNatEntries(s) + CountFreeNids(s) IN
       /\ th' = [th EXCEPT ![t].pc = "c_relock", ![t].count = @ + c,
                           ![t].moved = @ \ {s}]
       /\ log' = Logged(t, "count", s, 0, c)
    /\ UNCHANGED <<f3fs_list, f3fs_list_lock, shrinker_run_no, sb, life,
                   budget, mode, drawn, call, busy, nvisit>>

\* lines 65-67: spin_lock; p = p->next; mutex_unlock
CountRelock(t) ==
    /\ th[t].pc = "c_relock"
    /\ LockFree
    /\ f3fs_list_lock' = t
    /\ th' = [th EXCEPT ![t].pc = "c_loop", ![t].p = NextOf(th[t].p)]
    /\ sb' = [sb EXCEPT ![th[t].p].umount_mutex = MutexUnlock(t)]
    /\ busy' = Released(th[t].p)
    /\ UNCHANGED <<f3fs_list, shrinker_run_no, life, budget, mode, drawn, call, log,
                   nvisit>>

(* ------------------------- f3fs_shrink_scan --------------------------- *)
\* the reclaim framework calls f3fs_shrink_scan with sc->nr_to_scan = nr
StartScan(t, nr) ==
    /\ th[t].pc = "idle"
    /\ budget.scan > 0
    /\ budget' = [budget EXCEPT !.scan = @ - 1]
    /\ nr \in budget.nr
    /\ th' = [th EXCEPT ![t] = [IdleTh EXCEPT !.pc = "s_lock", !.nr = nr,
                                       !.pre = IF budget.snap
                                              THEN TotalReclaimable
                                              ELSE 0]]
    /\ call' = [call EXCEPT ![t] = [op |-> "scan", arg |-> nr, done |-> FALSE,
                                    ret |-> 0]]
    /\ log' = [log EXCEPT ![t] = <<>>]
    /\ busy' = [busy EXCEPT ![t] = {s \in Sbs : ~GateFree(s)}]
    /\ UNCHANGED <<f3fs_list, f3fs_list_lock, shrinker_run_no, sb, life, mode, drawn,
                   nvisit>>

\* lines 82-86: spin_lock; run_no = ++shrinker_run_no (not 0); p = f3fs_list.next
ScanLock(t) ==
    /\ th[t].pc = "s_lock"
    /\ LockFree
    /\ f3fs_list_lock' = t
    /\ shrinker_run_no' = NextRunNo(shrinker_run_no)
    /\ drawn' = drawn + 1
    /\ th' = [th EXCEPT ![t].pc = "s_loop", ![t].p = f3fs_list.next[HEAD],
                        ![t].run_no = NextRunNo(shrinker_run_no),
                        ![t].seq = drawn + 1,
                        ![t].freed = 0,
                        ![t].was = IF budget.snap THEN Registry ELSE <<>>]
    /\ UNCHANGED <<f3fs_list, sb, life, budget, mode, call, log, busy, nvisit>>

\* (mutant) scan returns what it was asked for
ScanResultNr(t) == th[t].nr

\* the value f3fs_shrink_scan returns (line 121)
ScanResult(t) == th[t].freed

\* spin_unlock; return freed (lines 120-121)
ScanReturn(t) ==
    /\ f3fs_list_lock' = SpinUnlock(t)
    /\ call' = [call EXCEPT ![t].done = TRUE, ![t].ret = ScanResult(t)]
    /\ th' = [th EXCEPT ![t] = IdleTh]

\* line 87: the walk is back at the head
ScanDone(t) ==
    /\ th[t].pc = "s_loop"
    /\ Holds(t)
    /\ th[t].p = HEAD
    /\ ScanReturn(t)
    /\ UNCHANGED <<f3fs_list, shrinker_run_no, sb, life, budget, mode, drawn, log,
                   busy, nvisit>>

\* (mutant) the marker is never recognised
SeenNever(s, run_no) == FALSE

\* the cycle test of line 90: sbi->shrinker_run_no == run_no
SeenThisRun(s, run_no) == sb[s].shrinker_run_no = run_no

\* lines 90-91: the record carries this run's number: break
ScanSeen(t) ==
    /\ th[t].pc = "s_loop"
    /\ Holds(t)
    /\ th[t].p # HEAD
    /\ SeenThisRun(th[t].p, th[t].run_no)
    /\ ScanReturn(t)
    /\ UNCHANGED <<f3fs_list, shrinker_run_no, sb, life, budget, mode, drawn, log,
                   busy, nvisit>>

\* lines 94-97: mutex_trylock fails: p = p->next; continue
ScanSkip(t) ==
    /\ th[t].pc = "s_loop"
    /\ Holds(t)
    /\ th[t].p # HEAD
    /\ ~SeenThisRun(th[t].p, th[t].run_no)
    /\ TrylockFails(th[t].p)
    /\ th' = [th EXCEPT ![t].p = NextOf(th[t].p),
                        ![t].nskip = Min(@ + 1, SkipCap)]
    /\ log' = Logged(t, "skip", th[t].p, 0, 0)
    /\ UNCHANGED <<f3fs_list, f3fs_list_lock, shrinker_run_no, sb, life,
                   budget, mode, drawn, call, busy, nvisit>>

\* lines 94, 98: mutex_trylock succeeds; spin_unlock
ScanAcquire(t) ==
    /\ th[t].pc = "s_loop"
    /\ Holds(t)
    /\ th[t].p # HEAD
    /\ ~SeenThisRun(th[t].p, th[t].run_no)
    /\ TrylockOk(th[t].p)
    /\ sb' = [sb EXCEPT ![th[t].p].umount_mutex = t]
    /\ f3fs_list_lock' = SpinUnlock(t)
    /\ th' = [th EXCEPT ![t].pc = "s_stamp"]
    /\ nvisit' = IF budget.trace THEN [nvisit EXCEPT ![th[t].p] = @ + 1]
                  ELSE nvisit
    /\ UNCHANGED <<f3fs_list, shrinker_run_no, life, budget, mode, drawn, call, log,
                   busy>>

\* line 100: sbi->shrinker_run_no = run_no
ScanStamp(t) ==
    /\ th[t].pc = "s_stamp"
    /\ sb' = [sb EXCEPT ![th[t].p].shrinker_run_no = th[t].run_no,
                        ![th[t].p].stamp_seq = th[t].seq]
    /\ th' = [th EXCEPT ![t].pc = "s_ext"]
    /\ UNCHANGED <<f3fs_list, f3fs_list_lock, shrinker_run_no, life, budget,
                   mode, drawn, call, log, busy, nvisit>>

\* (mutant) tier 1 asks for the whole target
ExtentFull(nr) == nr

\* the amount tier 1 asks of the extent cache: nr >> 1
ExtentRequest(nr) == nr \div 2

\* line 103: freed += f3fs_shrink_extent_tree(sbi, nr >> 1)
ScanExtent(t) ==
    /\ th[t].pc = "s_ext"
    /\ LET s == th[t].p
           req == ExtentRequest(th[t].nr) IN
       \E got \in ShrinkOutcomes(CountExtentCache(s), req) :
          /\ sb' = AfterShrinkExtent(s, got)
          /\ th' = [th EXCEPT ![t].pc = "s_nat", ![t].freed = @ + got]
          /\ log' = Logged(t, "extent", s, req, got)
    /\ UNCHANGED <<f3fs_list, f3fs_list_lock, shrinker_run_no, life, budget,
                   mode, drawn, call, busy, nvisit>>

\* (mutant) tier 2 and tier 3 ask for the whole target
WholeTarget(nr, freed) == nr

\* the amount tier 2 and tier 3 ask for: nr - freed
Remaining(nr, freed) == nr - freed

\* the test that guards tier 2 and tier 3: freed < nr
BelowTarget(freed, nr) == freed < nr

\* lines 106-107: if (freed < nr) freed += f3fs_try_to_free_nats(sbi, nr - freed)
ScanNats(t) ==
    /\ th[t].pc = "s_nat"
    /\ LET s == th[t].p
           req == Remaining(th[t].nr, th[t].freed) IN
       IF BelowTarget(th[t].freed, th[t].nr)
       THEN \E got \in ShrinkOutcomes(CountNatEntries(s), req) :
               /\ sb' = AfterFreeNats(s, got)
               /\ th' = [th EXCEPT ![t].pc = "s_nid", ![t].freed = @ + got]
               /\ log' = Logged(t, "nat", s, req, got)
       ELSE /\ th' = [th EXCEPT ![t].pc = "s_nid"]
            /\ UNCHANGED <<sb, log>>
    /\ UNCHANGED <<f3fs_list, f3fs_list_lock, shrinker_run_no, life, budget,
                   mode, drawn, call, busy, nvisit>>

\* lines 110-111: if (freed < nr) freed += f3fs_try_to_free_nids(sbi, nr - freed)
ScanNids(t) ==
    /\ th[t].pc = "s_nid"
    /\ LET s == th[t].p
           req == Remaining(th[t].nr, th[t].freed) IN
       IF BelowTarget(th[t].freed, th[t].nr)
       THEN \E got \in ShrinkOutcomes(CountFreeNids(s), req) :
               /\ sb' = AfterFreeNids(s, got)
               /\ th' = [th EXCEPT ![t].pc = "s_relock", ![t].freed = @ + got]
               /\ log' = Logged(t, "nid", s, req, got)
       ELSE /\ th' = [th EXCEPT ![t].pc = "s_relock"]
            /\ UNCHANGED <<sb, log>>
    /\ UNCHANGED <<f3fs_list, f3fs_list_lock, shrinker_run_no, life, budget,
                   mode, drawn, call, busy, nvisit>>

\* (mutant) the walk ends only once freed exceeds nr
TargetExceeded(freed, nr) == freed > nr

\* the test that ends the walk after a record: freed >= nr (line 117)
TargetMet(freed, nr) == freed >= nr

\* lines 113-117: spin_lock; p = p->next; list_move_tail; mutex_unlock; then
\* the test freed >= nr, which sends the scan to the break of line 118 or
\* back to the head of the loop, f3fs_list_lock held either way
ScanRelock(t) ==
    /\ th[t].pc = "s_relock"
    /\ LockFree
    /\ f3fs_list_lock' = t
    /\ f3fs_list' = ListMoveTail(f3fs_list, th[t].p)
    /\ sb' = [sb EXCEPT ![th[t].p].umount_mutex = MutexUnlock(t)]
    /\ busy' = Released(th[t].p)
    /\ th' = [MovedBy(t, th[t].p) EXCEPT
                  ![t].pc = IF TargetMet(th[t].freed, th[t].nr)
                            THEN "s_break" ELSE "s_loop",
                  ![t].p = NextOf(th[t].p)]
    /\ UNCHANGED <<shrinker_run_no, life, budget, mode, drawn, call, log, nvisit>>

\* lines 118, 120-121: break; spin_unlock; return freed
ScanBreak(t) ==
    /\ th[t].pc = "s_break"
    /\ Holds(t)
    /\ ScanReturn(t)
    /\ UNCHANGED <<f3fs_list, shrinker_run_no, sb, life, budget, mode, drawn, log,
                   busy, nvisit>>

(* ----------------------- f3fs_join_shrinker --------------------------- *)
\* mount calls f3fs_join_shrinker(sbi) for an instance not yet registered
StartJoin(t, s) ==
    /\ th[t].pc = "idle"
    /\ life[s] = "new"
    /\ life' = [life EXCEPT ![s] = "joining"]
    /\ th' = [th EXCEPT ![t] = [IdleTh EXCEPT !.pc = "j_lock", !.p = s]]
    /\ call' = [call EXCEPT ![t] = [op |-> "join", arg |-> s, done |-> FALSE,
                                    ret |-> 0]]
    /\ log' = [log EXCEPT ![t] = <<>>]
    /\ busy' = [busy EXCEPT ![t] = {}]
    /\ UNCHANGED <<f3fs_list, f3fs_list_lock, shrinker_run_no, sb, budget,
                   mode, drawn, nvisit>>

\* lines 126-128: spin_lock; list_add_tail; spin_unlock
JoinAdd(t) ==
    /\ th[t].pc = "j_lock"
    /\ LockFree
    /\ f3fs_list' = ListAddTail(f3fs_list, th[t].p)
    /\ life' = [life EXCEPT ![th[t].p] = "mounted"]
    /\ call' = [call EXCEPT ![t].done = TRUE]
    /\ th' = [th EXCEPT ![t] = IdleTh]
    /\ nvisit' = [s \in Sbs |-> 0]
    /\ UNCHANGED <<f3fs_list_lock, shrinker_run_no, sb, budget, mode, drawn, log,
                   busy>>

(* ------------------ unmount and f3fs_leave_shrinker ------------------- *)
\* unmount of a mounted instance begins (f3fs_put_super)
StartUmount(t, s) ==
    /\ th[t].pc = "idle"
    /\ life[s] = "mounted"
    /\ life' = [life EXCEPT ![s] = "umounting"]
    /\ th' = [th EXCEPT ![t] = [IdleTh EXCEPT !.pc = "u_lock", !.p = s]]
    /\ call' = [call EXCEPT ![t] = [op |-> "leave", arg |-> s, done |-> FALSE,
                                    ret |-> 0]]
    /\ log' = [log EXCEPT ![t] = <<>>]
    /\ busy' = [busy EXCEPT ![t] = {}]
    /\ UNCHANGED <<f3fs_list, f3fs_list_lock, shrinker_run_no, sb, budget,
                   mode, drawn, nvisit>>

\* the caller of leave takes the gate: mutex_lock(&sbi->umount_mutex), blocking
UmountLock(t) ==
    /\ th[t].pc = "u_lock"
    /\ GateFree(th[t].p)
    /\ sb' = [sb EXCEPT ![th[t].p].umount_mutex = t]
    /\ th' = [th EXCEPT ![t].pc = "l_drain"]
    /\ UNCHANGED <<f3fs_list, f3fs_list_lock, shrinker_run_no, life, budget,
                   mode, drawn, call, log, busy, nvisit>>

\* (mutant) leave asks for half of what the extent cache holds
DrainHalf(s) == CountExtentCache(s) \div 2

\* the amount leave asks of the extent cache: __count_extent_cache(sbi)
DrainRequest(s) == CountExtentCache(s)

\* line 133: f3fs_shrink_extent_tree(sbi, __count_extent_cache(sbi))
LeaveDrain(t) ==
    /\ th[t].pc = "l_drain"
    /\ LET s == th[t].p
           req == DrainRequest(s) IN
       \E got \in ShrinkOutcomes(CountExtentCache(s), req) :
          /\ sb' = AfterShrinkExtent(s, got)
          /\ log' = Logged(t, "extent", s, req, got)
    /\ th' = [th EXCEPT ![t].pc = "l_lock"]
    /\ UNCHANGED <<f3fs_list, f3fs_list_lock, shrinker_run_no, life, budget,
                   mode, drawn, call, busy, nvisit>>

\* lines 135-137: spin_lock; list_del_init; spin_unlock
LeaveDel(t) ==
    /\ th[t].pc = "l_lock"
    /\ LockFree
    /\ f3fs_list' = ListDelInit(f3fs_list, th[t].p)
    /\ th' = [th EXCEPT ![t].pc = "u_unlock"]
    /\ call' = [call EXCEPT ![t].done = TRUE]
    /\ nvisit' = [s \in Sbs |-> 0]
    /\ UNCHANGED <<f3fs_list_lock, shrinker_run_no, sb, life, budget, mode, drawn,
                   log, busy>>

\* the caller of leave releases the gate: mutex_unlock(&sbi->umount_mutex)
UmountUnlock(t) ==
    /\ th[t].pc = "u_unlock"
    /\ sb' = [sb EXCEPT ![th[t].p].umount_mutex = NoThread]
    /\ busy' = Released(th[t].p)
    /\ life' = [life EXCEPT ![th[t].p] = "gone"]
    /\ th' = [th EXCEPT ![t] = IdleTh]
    /\ UNCHANGED <<f3fs_list, f3fs_list_lock, shrinker_run_no, budget, mode, drawn,
                   call, log, nvisit>>

(* --------------------------- specifications --------------------------- *)
\* an instance as mount leaves it: gate free, never scanned, caches filled
NewSb(z, e, n, d, f) ==
    [umount_mutex |-> NoThread, shrinker_run_no |-> 0, stamp_seq |-> 0,
     total_zombie_tree |-> z, total_ext_node |-> e,
     nat_cnt |-> [RECLAIMABLE_NAT |-> n, DIRTY_NAT |-> d],
     nid_cnt |-> [FREE_NID |-> f]]

\* the state after module load: empty registry, no call running
InitBase ==
    /\ f3fs_list = [next |-> [n \in Nodes |-> n], prev |-> [n \in Nodes |-> n]]
    /\ f3fs_list_lock = NoThread
    /\ shrinker_run_no = 0
    /\ drawn = 0
    /\ th = [t \in Threads |-> IdleTh]
    /\ call = [t \in Threads |-> NoCall]
    /\ log = [t \in Threads |-> <<>>]
    /\ busy = [t \in Threads |-> {}]
    /\ nvisit = [s \in Sbs |-> 0]

\* every nr_to_scan the reclaim framework may pass
Targets == 0..MaxTarget

\* an instance with little to reclaim, and one with every cache filled
PoorSb == NewSb(0, 1, 0, 1, MAX_FREE_NIDS)
RichSb == NewSb(1, MaxCache - 1, MaxCache, 1, MAX_FREE_NIDS + 1)

\* the concurrent workload: two threads, each calling anything at any time,
\* two instances that are mounted and unmounted while reclaim runs
Pair == {1, 2}
Init ==
    /\ InitBase
    /\ life = [s \in Sbs |-> IF s \in Pair THEN "new" ELSE "absent"]
    /\ sb \in {[s \in Sbs |-> PoorSb], [s \in Sbs |-> RichSb]}
    /\ budget \in {[count |-> 1, scan |-> 1, nr |-> Targets,
                    snap |-> FALSE, trace |-> TRUE],
                   [count |-> 0, scan |-> 2, nr |-> Targets,
                    snap |-> FALSE, trace |-> TRUE]}
    /\ mode \in {"exact"}

\* one step of thread t
Step(t) ==
    \/ StartCount(t) \/ CountLock(t) \/ CountDone(t) \/ CountSkip(t)
    \/ CountAcquire(t) \/ CountCaches(t) \/ CountRelock(t)
    \/ \E nr \in budget.nr : StartScan(t, nr)
    \/ ScanLock(t) \/ ScanDone(t) \/ ScanSeen(t) \/ ScanSkip(t)
    \/ ScanAcquire(t) \/ ScanStamp(t) \/ ScanExtent(t) \/ ScanNats(t)
    \/ ScanNids(t) \/ ScanRelock(t) \/ ScanBreak(t)
    \/ \E s \in Sbs : StartJoin(t, s)
    \/ JoinAdd(t)
    \/ \E s \in Sbs : StartUmount(t, s)
    \/ UmountLock(t) \/ LeaveDrain(t) \/ LeaveDel(t) \/ UmountUnlock(t)

Next == \E t \in Pair : Step(t)

Spec == Init /\ [][Next]_vars

\* the same workload with every thread scheduled again and again: a thread
\* that can take a step eventually takes one (spin locks and mutexes are
\* handed over, cache calls return)
InitLive ==
    /\ InitBase
    /\ life = [s \in Sbs |-> IF s \in Pair THEN "new" ELSE "absent"]
    /\ sb \in {[s \in Sbs |-> PoorSb], [s \in Sbs |-> RichSb]}
    /\ budget = [count |-> 1, scan |-> 1, nr |-> Targets,
                 snap |-> FALSE, trace |-> TRUE]
    /\ mode = "exact"

SpecLive == InitLive /\ [][Next]_vars /\ \A t \in Pair : WF_vars(Step(t))

\* the registry after instances 1..k joined in that order
RECURSIVE Joined(_)
Joined(k) ==
    IF k = 0 THEN [next |-> [n \in Nodes |-> n], prev |-> [n \in Nodes |-> n]]
    ELSE ListAddTail(Joined(k - 1), k)

\* caches for the sequential workload: nothing to reclaim, only free nids
EmptySb == NewSb(0, 0, 0, 1, MAX_FREE_NIDS - 1)
NidSb == NewSb(0, 0, 0, 0, MAX_FREE_NIDS + MaxCache)
SeqSbs == {PoorSb, RichSb, NidSb}

\* the sequential workload: instances 1..k are mounted, nothing unmounts, and
\* one thread calls count and scan one after the other
InitSeq ==
    /\ f3fs_list_lock = NoThread
    /\ shrinker_run_no = 0
    /\ drawn = 0
    /\ th = [t \in Threads |-> IdleTh]
    /\ call = [t \in Threads |-> NoCall]
    /\ log = [t \in Threads |-> <<>>]
    /\ busy = [t \in Threads |-> {}]
    /\ nvisit = [s \in Sbs |-> 0]
    /\ \E k \in 0..Cardinality(Sbs) :
          /\ f3fs_list = Joined(k)
          /\ life = [s \in Sbs |-> IF s <= k THEN "mounted" ELSE "absent"]
          /\ \/ /\ sb \in [Sbs -> SeqSbs \cup {EmptySb}]
                /\ \A s \in Sbs : sb[s] \in SeqSbs <=> s <= k
                /\ budget = [count |-> 1, scan |-> MaxCalls, nr |-> Targets,
                             snap |-> TRUE, trace |-> TRUE]
                /\ mode = "exact"
             \/ /\ k >= 2
                /\ sb \in [Sbs -> SeqSbs \cup {EmptySb}]
                /\ \A s \in Sbs : sb[s] \in SeqSbs <=> s <= k
                /\ budget = [count |-> 0, scan |-> MaxCalls + 1, nr |-> {1},
                             snap |-> TRUE, trace |-> TRUE]
                /\ mode = "exact"
             \/ /\ k \in {1, 2}
                /\ sb \in [Sbs -> {RichSb, EmptySb}]
                /\ \A s \in Sbs : sb[s] = RichSb <=> s <= k
                /\ budget = [count |-> 0, scan |-> 2, nr |-> Targets,
                             snap |-> TRUE, trace |-> TRUE]
                /\ mode \in {"fewer", "more"}
             \/ /\ k = 1
                /\ sb = [s \in Sbs |->
                           IF s = 1 THEN NewSb(4, 6, 10, 3, MAX_FREE_NIDS + 10)
                           ELSE EmptySb]
                /\ budget = [count |-> 1, scan |-> 1, nr |-> {20},
                             snap |-> TRUE, trace |-> TRUE]
                /\ mode = "exact"
             \/ /\ k = 2
                /\ sb = [s \in Sbs |->
                           CASE s = 1 -> NewSb(0, 1, 2, 0, MAX_FREE_NIDS)
                             [] s = 2 -> NewSb(1, 1, 2, 1, MAX_FREE_NIDS + 1)
                             [] OTHER -> EmptySb]
                /\ budget = [count |-> 0, scan |-> 1, nr |-> {4},
                             snap |-> TRUE, trace |-> TRUE]
                /\ mode = "exact"

\* a lone thread never meets a held gate: the skip steps cannot happen
NextSeq ==
    \/ StartCount(1) \/ CountLock(1) \/ CountDone(1)
    \/ CountAcquire(1) \/ CountCaches(1) \/ CountRelock(1)
    \/ \E nr \in budget.nr : StartScan(1, nr)
    \/ ScanLock(1) \/ ScanDone(1) \/ ScanSeen(1)
    \/ ScanAcquire(1) \/ ScanStamp(1) \/ ScanExtent(1) \/ ScanNats(1)
    \/ ScanNids(1) \/ ScanRelock(1) \/ ScanBreak(1)

SpecSeq == InitSeq /\ [][NextSeq]_vars

\* the repeated-count workload: instances 1..k are mounted, thread 1 calls
\* count and scan one after the other, and once a count of thread 1 has
\* returned thread 2 may call count, after which thread 1 calls nothing
InitTwice ==
    /\ f3fs_list_lock = NoThread
    /\ shrinker_run_no = 0
    /\ drawn = 0
    /\ th = [t \in Threads |-> IdleTh]
    /\ call = [t \in Threads |-> NoCall]
    /\ log = [t \in Threads |-> <<>>]
    /\ busy = [t \in Threads |-> {}]
    /\ nvisit = [s \in Sbs |-> 0]
    /\ \E k \in 0..Cardinality(Sbs) :
          /\ f3fs_list = Joined(k)
          /\ life = [s \in Sbs |-> IF s <= k THEN "mounted" ELSE "absent"]
          /\ sb \in [Sbs -> SeqSbs \cup {EmptySb}]
          /\ \A s \in Sbs : s > k => sb[s] = EmptySb
    /\ budget = [count |-> 2, scan |-> 1, nr |-> Targets,
                 snap |-> FALSE, trace |-> TRUE]
    /\ mode = "exact"

NextTwice ==
    \/ /\ call[2].op = "none"
       /\ NextSeq
    \/ /\ call[1].op = "count" /\ call[1].done
       /\ StartCount(2)
    \/ CountLock(2) \/ CountDone(2)
    \/ CountAcquire(2) \/ CountCaches(2) \/ CountRelock(2)

SpecTwice == InitTwice /\ [][NextTwice]_vars

\* the wrap-around workload: instances 1..k are mounted and two threads call
\* scan, as many times in all as the run number has values
WrapCalls == Pow2(RunNoBits)
InitWrap ==
    /\ f3fs_list_lock = NoThread
    /\ shrinker_run_no = 0
    /\ drawn = 0
    /\ th = [t \in Threads |-> IdleTh]
    /\ call = [t \in Threads |-> NoCall]
    /\ log = [t \in Threads |-> <<>>]
    /\ busy = [t \in Threads |-> {}]
    /\ nvisit = [s \in Sbs |-> 0]
    /\ \E k \in {1, 2} :
          /\ f3fs_list = Joined(k)
          /\ life = [s \in Sbs |-> IF s <= k THEN "mounted" ELSE "absent"]
          /\ sb \in {[s \in Sbs |-> IF s <= k THEN PoorSb ELSE EmptySb],
                      [s \in Sbs |-> IF s <= k THEN NidSb ELSE EmptySb]}
    /\ budget = [count |-> 0, scan |-> WrapCalls, nr |-> {1},
                 snap |-> FALSE, trace |-> TRUE]
    /\ mode = "exact"

NextWrap ==
    \E t \in Pair :
        \/ \E nr \in budget.nr : StartScan(t, nr)
        \/ ScanLock(t) \/ ScanDone(t) \/ ScanSeen(t) \/ ScanSkip(t)
        \/ ScanAcquire(t) \/ ScanStamp(t) \/ ScanExtent(t) \/ ScanNats(t)
        \/ ScanNids(t) \/ ScanRelock(t) \/ ScanBreak(t)

SpecWrap == InitWrap /\ [][NextWrap]_vars

\* the chase workload: one or three mounted instances, all with nothing to
\* reclaim or all with every cache filled, and two threads that each call
\* scan(1) once, both scheduled again and again; log and nvisit are not kept
InitChase ==
    /\ f3fs_list_lock = NoThread
    /\ shrinker_run_no = 0
    /\ drawn = 0
    /\ th = [t \in Threads |-> IdleTh]
    /\ call = [t \in Threads |-> NoCall]
    /\ log = [t \in Threads |-> <<>>]
    /\ busy = [t \in Threads |-> {}]
    /\ nvisit = [s \in Sbs |-> 0]
    /\ \E k \in {1, Cardinality(Sbs)} :
          /\ f3fs_list = Joined(k)
          /\ life = [s \in Sbs |-> IF s <= k THEN "mounted" ELSE "absent"]
    /\ sb \in {[s \in Sbs |-> EmptySb], [s \in Sbs |-> RichSb]}
    /\ budget = [count |-> 0, scan |-> 2, nr |-> {1}, snap |-> FALSE,
                 trace |-> FALSE]
    /\ mode = "exact"

SpecChase ==
    InitChase /\ [][NextWrap]_vars
              /\ \A t \in Pair : WF_vars(NextWrap /\ th'[t] # th[t])

\* the free-nid workload: one mounted instance whose caches are empty but for
\* the free nid cache, which holds any number an unsigned int can hold, and
\* one thread that calls count once
InitNid ==
    /\ f3fs_list_lock = NoThread
    /\ shrinker_run_no = 0
    /\ drawn = 0
    /\ th = [t \in Threads |-> IdleTh]
    /\ call = [t \in Threads |-> NoCall]
    /\ log = [t \in Threads |-> <<>>]
    /\ busy = [t \in Threads |-> {}]
    /\ nvisit = [s \in Sbs |-> 0]
    /\ f3fs_list = Joined(1)
    /\ life = [s \in Sbs |-> IF s <= 1 THEN "mounted" ELSE "absent"]
    /\ \E f \in 0..UIntMax :
          sb = [s \in Sbs |-> IF s = 1 THEN NewSb(0, 0, 0, 1, f) ELSE EmptySb]
    /\ budget = [count |-> 1, scan |-> 0, nr |-> {}, snap |-> FALSE,
                 trace |-> TRUE]
    /\ mode = "exact"

NextNid ==
    \/ StartCount(1) \/ CountLock(1) \/ CountDone(1)
    \/ CountAcquire(1) \/ CountCaches(1) \/ CountRelock(1)

SpecNid == InitNid /\ [][NextNid]_vars

\* the count-among-scans workload: one or two mounted instances, each with
\* every cache filled or with nothing to reclaim; thread 1 calls count once
\* while thread 2 calls scan(1) again and again; what the scans move behind
\* the cursor of the count is kept
InitMove ==
    /\ f3fs_list_lock = NoThread
    /\ shrinker_run_no = 0
    /\ drawn = 0
    /\ th = [t \in Threads |-> IdleTh]
    /\ call = [t \in Threads |-> NoCall]
    /\ log = [t \in Threads |-> <<>>]
    /\ busy = [t \in Threads |-> {}]
    /\ nvisit = [s \in Sbs |-> 0]
    /\ \E k \in {1, 2} :
          /\ f3fs_list = Joined(k)
          /\ life = [s \in Sbs |-> IF s <= k THEN "mounted" ELSE "absent"]
          /\ sb \in [Sbs -> {RichSb, EmptySb}]
          /\ \A s \in Sbs : s > k => sb[s] = EmptySb
    /\ budget = [count |-> 1, scan |-> MaxCalls, nr |-> {1},
                 snap |-> TRUE, trace |-> TRUE]
    /\ mode = "exact"

NextMove ==
    \/ StartCount(1) \/ CountLock(1) \/ CountDone(1) \/ CountSkip(1)
    \/ CountAcquire(1) \/ CountCaches(1) \/ CountRelock(1)
    \/ \E nr \in budget.nr : StartScan(2, nr)
    \/ ScanLock(2) \/ ScanDone(2) \/ ScanSeen(2) \/ ScanSkip(2)
    \/ ScanAcquire(2) \/ ScanStamp(2) \/ ScanExtent(2) \/ ScanNats(2)
    \/ ScanNids(2) \/ ScanRelock(2) \/ ScanBreak(2)

SpecMove == InitMove /\ [][NextMove]_vars

(* ------------------------------ claims -------------------------------- *)
ShrinkOps == {"extent", "nat", "nid"}
WalkerCall(t) == call[t].op \in {"count", "scan"}
IsShrink(e) == e.op \in ShrinkOps
\* the shrink operations a call issued, in order
ShrinkLog(t) == SelectSeq(log[t], IsShrink)
\* the instances a call queried or shrank
Touched(t) ==
    {log[t][i].sbi : i \in {j \in 1..Len(log[t]) : log[t][j].op # "skip"}}
\* the instances a call skipped
Skipped(t) ==
    {log[t][i].sbi : i \in {j \in 1..Len(log[t]) : log[t][j].op = "skip"}}

RECURSIVE SumGot(_)
SumGot(L) == IF L = <<>> THEN 0 ELSE Head(L).got + SumGot(Tail(L))

\* C1: busy-skip safety.  For a count or scan call and an instance whose gate
\* somebody else has held ever since the call began: the call has queried or
\* shrunk none of that instance's caches, does not hold its gate, and if the
\* call cannot take a step it is the spin lock, held by another thread, that
\* it waits for, never a gate.
C1_BusySkipSafety ==
    \A t \in Threads :
        WalkerCall(t) =>
            /\ \A s \in busy[t] : s \notin Touched(t) /\ sb[s].umount_mutex # t
            /\ (~call[t].done /\ ~ENABLED Step(t))
                   => f3fs_list_lock \notin {NoThread, t}

\* a scan returned having freed something, after skipping a record of the
\* registry whose gate was held by someone else during the whole call
C1_Witness ==
    \E t \in Threads : \E s \in Sbs :
        /\ call[t].op = "scan" /\ call[t].done /\ call[t].ret > 0
        /\ s \in busy[t] /\ s \in Skipped(t) /\ s \in Members

\* C2: scan stop rule.  In a scan with target >= 1 every shrink operation,
\* of any tier on any instance, is issued while the freed total is still
\* below the target.
C2_ScanStopRule ==
    \A t \in Threads :
        (call[t].op = "scan" /\ call[t].arg >= 1) =>
            \A i \in 1..Len(log[t]) :
                IsShrink(log[t][i]) => log[t][i].before < call[t].arg

\* a scan met its target and returned while a registered instance it never
\* touched still had objects to reclaim
C2_Witness ==
    \E t \in Threads : \E s \in Members :
        /\ call[t].op = "scan" /\ call[t].done
        /\ call[t].arg >= 1 /\ call[t].ret >= call[t].arg
        /\ Reclaimable(s) > 0 /\ s \notin Touched(t)

\* C3: round-robin fairness.  With scans run one after the other and no gate
\* held, no instance is visited a second time before every registered
\* instance has been visited once.
C3_RoundRobin ==
    (\E s \in Sbs : nvisit[s] >= 2) => \A m \in Members : nvisit[m] >= 1

\* repeated scan(1) over three instances that all still report a count > 0:
\* one has been visited twice, the others once
C3_Witness ==
    /\ budget.nr = {1}
    /\ Cardinality(Members) = 3
    /\ \A m \in Members : Reclaimable(m) > 0
    /\ \E s \in Members :
          nvisit[s] = 2 /\ \A m \in Members \ {s} : nvisit[m] = 1

\* C4: budget tiering.  On each visited instance the extent cache is asked
\* for floor(target/2); the NAT cache is asked, for target - freed, iff freed
\* is below the target after that; the free-id cache likewise after the NAT
\* cache; what each tier returns is added to freed, and scan returns the sum.
\* One instance with 10/10/10 under scan(20): requests 10 and 10, returns 20.
C4_BudgetTiering ==
    \A t \in Threads :
        call[t].op = "scan" =>
            LET L == ShrinkLog(t)
                A == call[t].arg
                After(i) == L[i].before + L[i].got
                Last(i) == i = Len(L)
            IN
            /\ \A i \in 1..Len(L) :
                  /\ L[i].before = SumGot(SubSeq(L, 1, i - 1))
                  /\ L[i].op = "extent" =>
                        /\ L[i].req = A \div 2
                        /\ \A j \in 1..(i - 1) : L[j].sbi # L[i].sbi
                        /\ IF After(i) < A
                           THEN IF Last(i) THEN th[t].pc = "s_nat"
                                ELSE L[i + 1].op = "nat"
                           ELSE Last(i)
                  /\ L[i].op = "nat" =>
                        /\ L[i].req = A - L[i].before
                        /\ L[i].before < A
                        /\ i > 1 /\ L[i - 1].op = "extent"
                        /\ L[i - 1].sbi = L[i].sbi
                        /\ IF After(i) < A
                           THEN IF Last(i) THEN th[t].pc = "s_nid"
                                ELSE L[i + 1].op = "nid"
                           ELSE Last(i)
                  /\ L[i].op = "nid" =>
                        /\ L[i].req = A - L[i].before
                        /\ L[i].before < A
                        /\ i > 1 /\ L[i - 1].op = "nat"
                        /\ L[i - 1].sbi = L[i].sbi
                        /\ After(i) >= A => Last(i)
            /\ call[t].done => call[t].ret = SumGot(L)
            /\ (call[t].done /\ A = 20 /\ budget.nr = {20}) =>
                  /\ L = <<[op |-> "extent", sbi |-> 1, req |-> 10,
                            before |-> 0, got |-> 10],
                           [op |-> "nat", sbi |-> 1, req |-> 10,
                            before |-> 10, got |-> 10]>>
                  /\ call[t].ret = 20

\* scan(20) on the single 10/10/10 instance returned 20 and left the free-id
\* cache as it was
C4_Witness ==
    /\ budget.nr = {20}
    /\ call[1].op = "scan" /\ call[1].done /\ call[1].ret = 20
    /\ CountExtentCache(1) = 0 /\ CountNatEntries(1) = 0
    /\ CountFreeNids(1) = 10

\* C5: termination.  Under fair scheduling every count and every scan call
\* that has begun returns, whatever the other thread's calls do meanwhile.
\* (Two scans over three instances can chase each other round the list: each
\* finds the records the other has just stamped and moved to the tail.)
C5_Termination ==
    \A t \in Pair : (WalkerCall(t) /\ ~call[t].done) ~> call[t].done

\* C6: no deadlock with teardown.  While any thread is inside a call some
\* thread inside a call can take a step; a walker tries the gates only while
\* it holds f3fs_list_lock, and a walker that cannot step waits for the spin
\* lock another thread holds, never for a gate.
C6_NoDeadlock ==
    /\ (\E t \in Pair : th[t].pc # "idle")
          => \E t \in Pair : th[t].pc # "idle" /\ ENABLED Step(t)
    /\ \A t \in Pair :
          /\ th[t].pc \in {"c_loop", "s_loop", "s_break"} => Holds(t)
          /\ (WalkerCall(t) /\ th[t].pc # "idle" /\ ~ENABLED Step(t))
                => f3fs_list_lock \notin {NoThread, t}

\* an unmount holds a record's gate and waits for the spin lock, while the
\* walker that holds the spin lock stands at that very record
C6_Witness ==
    \E t \in Pair : \E u \in Pair :
        /\ th[u].pc = "l_lock" /\ sb[th[u].p].umount_mutex = u
        /\ Holds(t) /\ th[t].pc \in {"c_loop", "s_loop"}
        /\ th[t].p = th[u].p

\* C7: lock discipline.  A thread about to run, or running, a cache
\* operation (the count queries, a shrink of scan, the drain of leave) does
\* not hold f3fs_list_lock.
C7_LockDiscipline ==
    \A t \in Threads :
        th[t].pc \in {"c_count", "s_ext", "s_nat", "s_nid", "l_drain"}
            => ~Holds(t)

\* a scan is between two shrink calls while another thread holds the lock
C7_Witness ==
    \E t \in Pair : \E u \in Pair :
        /\ t # u /\ th[t].pc = "s_nat" /\ Holds(u)
        /\ Len(ShrinkLog(t)) >= 1

\* C8: leave drains and removes.  Once leave(s) has returned, s is not in the
\* registry, no running walk stands at s (so none visits it or credits its
\* counts from then on), and with caches that evict what is asked the extent
\* cache of s is empty.
C8_LeaveRemoves ==
    \A t \in Threads :
        (call[t].op = "leave" /\ call[t].done) =>
            LET s == call[t].arg IN
            /\ s \notin Members
            /\ \A u \in Threads :
                  (WalkerCall(u) /\ ~call[u].done) => th[u].p # s
            /\ mode = "exact" => CountExtentCache(s) = 0

\* leave returned for an instance whose extent cache held N > 0 objects,
\* while a count walks the registry and stands at the other instance
C8_Witness ==
    \E t \in Pair : \E u \in Pair :
        /\ call[t].op = "leave" /\ call[t].done
        /\ Len(log[t]) = 1 /\ log[t][1].req > 0 /\ log[t][1].got > 0
        /\ CountExtentCache(call[t].arg) = 0
        /\ call[u].op = "count" /\ th[u].pc = "c_count"
        /\ Members = {th[u].p}

\* C9: join visibility.  An instance that has not been appended yet is not
\* in the registry and no walk has skipped, queried or shrunk it; a mounted
\* instance is in the registry; and the step of join that returns appends
\* its record behind every record present and changes nothing else.
C9_JoinVisibility ==
    /\ [](\A s \in Sbs :
            /\ life[s] \in {"new", "joining"} =>
                  /\ s \notin Members
                  /\ \A u \in Threads : s \notin Touched(u) \cup Skipped(u)
                  /\ \A u \in Threads : WalkerCall(u) => th[u].p # s
            /\ life[s] = "mounted" => s \in Members)
    /\ [][\A t \in Threads :
            (th[t].pc = "j_lock" /\ th'[t].pc = "idle") =>
                /\ Registry' = Append(Registry, th[t].p)
                /\ UNCHANGED <<sb, shrinker_run_no, f3fs_list_lock>>]_vars

\* join returned for the second instance: it stands last in the registry
C9_Witness ==
    \E t \in Pair :
        /\ call[t].op = "join" /\ call[t].done
        /\ Len(Registry) = 2 /\ Registry[2] = call[t].arg

\* C10: monotonic non-increase.  When a scan that ran alone returns freed,
\* the registry's total reclaimable count is at most the total before the
\* scan minus min(freed, that total).
C10_MonotonicNonIncrease ==
    [][\A t \in Threads :
          (call[t].op = "scan" /\ ~call[t].done /\ call'[t].done) =>
              TotalReclaimable' <=
                  th[t].pre - Min(call'[t].ret, th[t].pre)]_vars

\* a scan that has freed objects from more than one cache is about to return
C10_Witness ==
    /\ th[1].pc = "s_relock"
    /\ th[1].freed >= th[1].nr /\ th[1].freed > 0
    /\ Len(ShrinkLog(1)) >= 2
    /\ th[1].pre = TotalReclaimable + th[1].freed

\* C11: idempotent, side-effect-free count.  A count that follows a count
\* with nothing in between returns the same value; no step of a count call
\* changes the registry's links, shrinker_run_no, or any field of a record
\* other than its gate; and a count that has returned holds no gate.
C11_CountIdempotent ==
    /\ []((\A t \in Pair : call[t].op = "count" /\ call[t].done)
             => call[1].ret = call[2].ret)
    /\ [](\A t \in Threads : (call[t].op = "count" /\ call[t].done)
             => \A s \in Sbs : sb[s].umount_mutex # t)
    /\ [][(\E t \in Threads : call'[t].op = "count"
                              /\ (~call[t].done \/ ~call'[t].done))
            => /\ UNCHANGED <<f3fs_list, shrinker_run_no>>
               /\ \A s \in Sbs :
                     [sb'[s] EXCEPT !.umount_mutex = NoThread]
                         = [sb[s] EXCEPT !.umount_mutex = NoThread]]_vars

\* two counts in a row returned the same positive value over two or more
\* instances, after a scan had stamped and moved records
C11_Witness ==
    /\ call[1].op = "count" /\ call[1].done
    /\ call[2].op = "count" /\ call[2].done
    /\ call[1].ret = call[2].ret /\ call[2].ret > 0
    /\ shrinker_run_no > 0
    /\ Len(Registry) >= 2 /\ Registry[1] # 1

\* the steps of scan between taking a record's gate and releasing it
ScanPcs == {"s_stamp", "s_ext", "s_nat", "s_nid", "s_relock"}

\* the entry a step appended to thread t's log, if it appended one
Appended(t) == Len(log'[t]) = Len(log[t]) + 1
NewEntry(t) == log'[t][Len(log'[t])]

\* C12 as stated: gate exclusivity between concurrent scans.  With only scans
\* running (no count, no unmount), a scan that skipped a record because the
\* other scan held its gate issues no shrink operation on that record for the
\* rest of its invocation.
C12_LoserNeverShrinks ==
    ((\A t \in Pair : call[t].op = "scan")
        /\ \A s \in Sbs : life[s] \notin {"umounting", "gone"})
    => \A t \in Pair : \A i \in 1..Len(log[t]) : \A j \in 1..Len(log[t]) :
          (i < j /\ log[t][i].op = "skip")
              => ~(IsShrink(log[t][j]) /\ log[t][j].sbi = log[t][i].sbi)

\* C12 (amended): of two scans that try the same record's gate exactly one
\* gets it: a scan between acquire and release holds the gate of its record,
\* so no two scans process one record at once; the scan that fails skips:
\* the step stamps nothing and shrinks nothing; and every shrink operation is
\* issued by the holder of the record's gate.  (The scan that lost may meet
\* the record again later in the same invocation and process it then.)
C12_GateExclusive ==
    /\ [](\A t \in Threads :
            (call[t].op = "scan" /\ th[t].pc \in ScanPcs) =>
                /\ sb[th[t].p].umount_mutex = t
                /\ \A u \in Threads \ {t} :
                      (call[u].op = "scan" /\ th[u].pc \in ScanPcs)
                          => th[u].p # th[t].p)
    /\ [][\A t \in Threads :
            (call[t].op = "scan" /\ Appended(t)) =>
                /\ IsShrink(NewEntry(t))
                      => sb[NewEntry(t).sbi].umount_mutex = t
                /\ NewEntry(t).op = "skip"
                      => /\ sb[NewEntry(t).sbi].umount_mutex \notin {NoThread, t}
                         /\ UNCHANGED <<sb, f3fs_list>>
                         /\ th'[t].pc = "s_loop"]_vars

\* two scans met at one record: one is shrinking it, the other has just
\* skipped it and walks on
C12_Witness ==
    \E t \in Pair : \E u \in Pair :
        /\ call[t].op = "scan" /\ call[u].op = "scan" /\ t # u
        /\ th[u].pc = "s_nat" /\ Len(ShrinkLog(u)) >= 1
        /\ th[t].pc = "s_loop" /\ Len(log[t]) >= 1
        /\ log[t][Len(log[t])] = [op |-> "skip", sbi |-> th[u].p, req |-> 0,
                                  before |-> th[t].freed, got |-> 0]

\* thread t is between taking and releasing the gate of record s, as a scan
\* that shrinks its caches, or as the unmount that drains and unlinks it
ScanActs(t, s) == call[t].op = "scan" /\ th[t].pc \in ScanPcs /\ th[t].p = s
LeaveActs(t, s) ==
    call[t].op = "leave" /\ th[t].pc \in {"l_drain", "l_lock", "u_unlock"}
                         /\ th[t].p = s

\* C13: scan/teardown exclusion.  For every record at most one thread is
\* acting on it, as a scan shrinking its caches or as leave draining its
\* extent cache, and that thread holds the record's gate.
C13_ScanLeaveExclusion ==
    \A s \in Sbs :
        LET A == {t \in Threads : ScanActs(t, s) \/ LeaveActs(t, s)} IN
        /\ Cardinality(A) <= 1
        /\ \A t \in A : sb[s].umount_mutex = t

\* leave has drained a record's extent cache and is about to unlink it, while
\* a scan that skipped that record shrinks another one
C13_Witness ==
    \E t \in Pair : \E u \in Pair : \E s \in Sbs :
        /\ LeaveActs(u, s) /\ th[u].pc = "l_lock"
        /\ Len(log[u]) = 1 /\ log[u][1].got > 0
        /\ call[t].op = "scan" /\ s \in Skipped(t)
        /\ th[t].pc \in {"s_ext", "s_nat", "s_nid"} /\ th[t].p # s

\* C14: count result.  A count that ran alone returns the sum, over the
\* records of the registry, of zombie extent trees + cached extent nodes
\* + clean NAT entries + free ids above the watermark; dirty NAT entries and
\* free ids at or below the watermark add nothing.
C14_CountResult ==
    \A t \in Threads :
        (call[t].op = "count" /\ call[t].done) =>
            call[t].ret =
                SumOver([s \in Sbs |->
                            sb[s].total_zombie_tree + sb[s].total_ext_node
                            + sb[s].nat_cnt.RECLAIMABLE_NAT
                            + Max(sb[s].nid_cnt.FREE_NID - MAX_FREE_NIDS, 0)],
                        Members)

\* a count returned a positive sum over a registry that holds a record with
\* dirty NAT entries and free ids below the watermark and a record with free
\* ids above it
C14_Witness ==
    \E t \in Pair : \E a \in Members : \E b \in Members :
        /\ call[t].op = "count" /\ call[t].done /\ call[t].ret > 0
        /\ sb[a].nat_cnt.DIRTY_NAT > 0
        /\ sb[a].nid_cnt.FREE_NID < MAX_FREE_NIDS
        /\ sb[b].nid_cnt.FREE_NID > MAX_FREE_NIDS

\* C15: no error outcomes.  A count or scan that has returned returned a
\* natural number; it returned 0 if every record it met was skipped as busy
\* or yielded nothing (which includes the empty registry); a held gate only
\* adds a skip to what the call did, and the thread is back outside the
\* shrinker once the call has returned.
C15_NoErrorOutcome ==
    \A t \in Threads :
        (WalkerCall(t) /\ call[t].done) =>
            /\ call[t].ret \in Nat
            /\ (\A i \in 1..Len(log[t]) : log[t][i].got = 0) => call[t].ret = 0
            /\ th[t].pc = "idle"

\* a scan asked for at least one object found every record of the registry
\* busy and returned 0
C15_Witness ==
    \E t \in Pair :
        /\ call[t].op = "scan" /\ call[t].done /\ call[t].arg >= 1
        /\ call[t].ret = 0
        /\ Len(log[t]) >= 1 /\ Touched(t) = {}
        /\ Skipped(t) = Members

\* the instances whose join has linked them and whose leave has not yet
\* unlinked them
Linked ==
    {s \in Sbs :
        \/ life[s] = "mounted"
        \/ /\ life[s] = "umounting"
           /\ \E t \in Threads : th[t].p = s
                                 /\ th[t].pc \in {"u_lock", "l_drain", "l_lock"}}

\* C16: registry membership invariant.  The list is a proper ring through the
\* head, no record occurs on it twice, and the records on it are exactly the
\* instances that have been joined and have not been unlinked by leave.
C16_Membership ==
    /\ Len(Registry) = Cardinality(Members)
    /\ Len(Registry) <= Cardinality(Sbs)
    /\ \A n \in Members \cup {HEAD} :
          /\ f3fs_list.prev[f3fs_list.next[n]] = n
          /\ f3fs_list.next[f3fs_list.prev[n]] = n
    /\ Members = Linked
    /\ \A t \in Threads :
          (call[t].op = "leave" /\ call[t].done) => call[t].arg \notin Members

\* two records, rotated by a scan, while an unmount is about to unlink one
C16_Witness ==
    /\ Registry = <<2, 1>>
    /\ \E t \in Pair : th[t].pc = "l_lock"
    /\ \E t \in Pair : call[t].op = "scan" /\ th[t].pc = "s_loop"
                       /\ Len(ShrinkLog(t)) >= 1

\* a scan that has drawn its run number and not yet returned
Running(t) ==
    call[t].op = "scan" /\ th[t].pc \in {"s_loop", "s_break"} \cup ScanPcs

\* the step in which scan t draws its run number
Draws(t) == th[t].pc = "s_lock" /\ th'[t].pc = "s_loop"

\* the run number after n on RunNoBits bits: n + 1, or 1 past the last value
Successor(n) == IF n = Pow2(RunNoBits) - 1 THEN 1 ELSE n + 1

\* what is common to C17 as stated and as amended: shrinker_run_no changes
\* only in the step in which a scan draws its number, which the scan takes
\* with f3fs_list_lock in hand; the number drawn is the successor of the
\* counter, it becomes the counter, and it is never 0
C17_DrawnUnderLock ==
    /\ [](\A t \in Threads : Running(t) => th[t].run_no \in 1..(Pow2(RunNoBits) - 1))
    /\ [][\A t \in Threads :
            Draws(t) => /\ f3fs_list_lock = NoThread /\ f3fs_list_lock' = t
                        /\ th'[t].run_no = Successor(shrinker_run_no)
                        /\ shrinker_run_no' = th'[t].run_no]_vars
    /\ [][shrinker_run_no' # shrinker_run_no
            => \E t \in Threads : Draws(t)]_vars

\* C17 as stated: run id freshness.  The above, and two scans that overlap in
\* time never hold the same run number.
C17_NeverSameRunNo ==
    /\ C17_DrawnUnderLock
    /\ [](\A t \in Threads : \A u \in Threads \ {t} :
            (Running(t) /\ Running(u)) => th[t].run_no # th[u].run_no)

\* C17 (amended): the above, and two scans that overlap in time hold the same
\* run number only after the counter has gone once round all its non-zero
\* values while the earlier scan was running, that is when 2^w - 1 or more
\* scans have drawn a number since the earlier scan drew its own.
C17_RunNoFresh ==
    /\ C17_DrawnUnderLock
    /\ [](\A t \in Threads : \A u \in Threads \ {t} :
            (Running(t) /\ Running(u) /\ th[t].run_no = th[u].run_no)
                => WrapCalls - budget.scan >= Pow2(RunNoBits))

\* the counter has wrapped: a running scan holds run number 1 again, drawn
\* after the last value, while another scan runs with a different number
C17_Witness ==
    \E t \in Pair : \E u \in Pair :
        /\ Running(t) /\ Running(u) /\ t # u
        /\ budget.scan = 0
        /\ th[t].run_no = 1 /\ th[u].run_no = Pow2(RunNoBits) - 1
        /\ shrinker_run_no = 1

\* C18: tier-1 precondition.  Every shrink operation of a scan, the
\* extent-cache one included, is issued with the freed total strictly below
\* the target, whatever the target; so a scan(0) issues no shrink operation.
C18_EveryTierBelowTarget ==
    \A t \in Threads :
        call[t].op = "scan" =>
            /\ \A i \in 1..Len(log[t]) :
                  IsShrink(log[t][i]) => log[t][i].before < call[t].arg
            /\ call[t].arg = 0 => ShrinkLog(t) = <<>>

\* C19 as stated: cross-instance budget.  Within one scan no request to a
\* cache of an instance visited after the first exceeds the target minus the
\* freed total at the moment of the request.
C19_LaterWithinRemainder ==
    \A t \in Threads :
        call[t].op = "scan" =>
            LET L == ShrinkLog(t) IN
            \A i \in 1..Len(L) :
                (\E j \in 1..(i - 1) : L[j].sbi # L[i].sbi)
                    => L[i].req <= call[t].arg - L[i].before

\* C19 (amended): within one scan freed is never reset: the total a request
\* is issued with is the sum of all that the earlier requests of the scan
\* returned, on whatever instance; the NAT and free-id requests of every
\* instance ask for exactly target - freed; the extent request of every
\* instance asks for floor(target/2), whatever remains of the target.
C19_BudgetCarriesOver ==
    \A t \in Threads :
        call[t].op = "scan" =>
            LET L == ShrinkLog(t)
                A == call[t].arg IN
            /\ \A i \in 1..Len(L) :
                  /\ L[i].before = SumGot(SubSeq(L, 1, i - 1))
                  /\ L[i].op \in {"nat", "nid"} => L[i].req = A - L[i].before
                  /\ L[i].op = "extent" => L[i].req = A \div 2
            /\ ~call[t].done => th[t].freed = SumGot(L)

\* scan(4) freed 3 on the first instance, whose free-id cache was asked for
\* the 1 that remained, and went on to the second, whose extent cache was
\* asked for 2
C19_Witness ==
    LET L == ShrinkLog(1) IN
    /\ call[1].op = "scan" /\ call[1].arg = 4 /\ call[1].done
    /\ Len(L) = 4
    /\ L[3] = [op |-> "nid", sbi |-> 1, req |-> 1, before |-> 3, got |-> 0]
    /\ L[4] = [op |-> "extent", sbi |-> 2, req |-> 2, before |-> 3, got |-> 2]

\* the records scan t has processed (gate taken, stamped, tier 1 issued), one
\* entry per time
Processed(t) == SelectSeq(log[t], LAMBDA e : e.op = "extent")
ProcessedTwice(t, s) ==
    \E i \in 1..Len(Processed(t)) : \E j \in 1..Len(Processed(t)) :
        i < j /\ Processed(t)[i].sbi = s /\ Processed(t)[j].sbi = s

\* C20: cycle detection.  Within one scan invocation no record is processed
\* more than once, and a scan standing at a record whose marker equals its
\* run number returns there; also when other scans run concurrently.
\* (A record that another scan has stamped again in the meantime no longer
\* carries the first scan's number, and the first scan processes it again.)
C20_NeverProcessedTwice ==
    /\ [](\A t \in Threads :
            call[t].op = "scan" => \A s \in Sbs : ~ProcessedTwice(t, s))
    /\ [][\A t \in Threads :
            (Running(t) /\ th[t].pc = "s_loop" /\ th[t].p # HEAD
                        /\ th'[t] # th[t]
                        /\ sb[th[t].p].shrinker_run_no = th[t].run_no)
                => call'[t].done /\ call'[t].ret = th[t].freed]_vars

\* C21: skip bound.  In one scan invocation the number of loop iterations
\* that skip a record whose gate is held never exceeds the number of records
\* in the registry, whatever other scans do meanwhile.
\* (Two scans over three records that keep processing the records the other
\* has just moved to the tail meet held gates again and again.)
C21_SkipBound ==
    \A t \in Threads : Running(t) => th[t].nskip <= Len(Registry)

\* C22: skip frame.  The step in which a count or a scan fails to take a
\* record's gate changes no field of any record (marker, caches, gate) and no
\* link of the list; the walker holds f3fs_list_lock before and after it;
\* its cursor goes to the record's successor in the list as it is then; and
\* its running totals are what they were.
C22_SkipFrame ==
    [][\A t \in Threads :
          (WalkerCall(t) /\ Appended(t) /\ NewEntry(t).op = "skip") =>
              LET s == NewEntry(t).sbi IN
              /\ s = th[t].p
              /\ sb[s].umount_mutex \notin {NoThread, t}
              /\ UNCHANGED <<sb, f3fs_list, shrinker_run_no>>
              /\ f3fs_list_lock = t /\ f3fs_list_lock' = t
              /\ th'[t].p = f3fs_list.next[s]
              /\ th'[t].pc = th[t].pc
              /\ th'[t].freed = th[t].freed /\ th'[t].count = th[t].count]_vars

\* a count has just skipped the first of two records, whose gate another
\* thread holds, and stands at the second with the spin lock in hand
C22_Witness ==
    \E t \in Pair : \E u \in Pair :
        /\ call[t].op = "count" /\ th[t].pc = "c_loop" /\ Holds(t)
        /\ Len(Registry) = 2 /\ th[t].p = Registry[2]
        /\ Len(log[t]) = 1 /\ log[t][1].op = "skip"
        /\ log[t][1].sbi = Registry[1]
        /\ sb[Registry[1]].umount_mutex = u /\ u # t

\* the records a scan processed, in the order it processed them
ProcessedSbs(t) == [i \in 1..Len(Processed(t)) |-> Processed(t)[i].sbi]
InSeq(q, x) == \E i \in 1..Len(q) : q[i] = x

\* C23: reordering by scan.  When a scan that ran alone returns, the registry
\* holds the records it held when the scan began: first those the scan did
\* not process, in the order they had, then those it processed, in the order
\* it processed them, each carrying the scan's run number as its marker.
C23_ReorderByScan ==
    [][\A t \in Threads :
          (call[t].op = "scan" /\ ~call[t].done /\ call'[t].done) =>
              LET P == ProcessedSbs(t)
                  Rest == SelectSeq(th[t].was, LAMBDA x : ~InSeq(P, x))
              IN
              /\ Registry' = Rest \o P
              /\ Members' = {th[t].was[i] : i \in 1..Len(th[t].was)}
              /\ \A i \in 1..Len(P) :
                    sb'[P[i]].shrinker_run_no = th[t].run_no]_vars

\* the second scan over three records met its target on the one record it
\* processed: the two others stand in front, in the order they had
C23_Witness ==
    /\ call[1].op = "scan" /\ call[1].done /\ call[1].ret >= 1
    /\ shrinker_run_no = 2
    /\ Registry = <<3, 1, 2>>
    /\ ProcessedSbs(1) = <<2>>
    /\ sb[1].shrinker_run_no = 1 /\ sb[2].shrinker_run_no = 2
    /\ sb[3].shrinker_run_no = 0

\* C24: leave ordering and scope.  A leave issues one cache operation in all:
\* a shrink of the record's extent cache, asked for the zombie trees plus
\* extent nodes the cache holds at that moment, issued while the thread does
\* not hold f3fs_list_lock and before the record is unlinked; the record is
\* unlinked afterwards, under f3fs_list_lock, and is on the list until then.
C24_LeaveOrdering ==
    /\ [](\A t \in Threads :
            call[t].op = "leave" =>
                LET s == call[t].arg IN
                /\ \A i \in 1..Len(log[t]) :
                      log[t][i].op = "extent" /\ log[t][i].sbi = s
                /\ th[t].pc \in {"u_lock", "l_drain"}
                      => log[t] = <<>> /\ s \in Members /\ ~Holds(t)
                /\ th[t].pc = "l_lock" => Len(log[t]) = 1 /\ s \in Members
                /\ call[t].done => Len(log[t]) = 1 /\ s \notin Members)
    /\ [][\A t \in Threads :
            /\ (call[t].op = "leave" /\ Appended(t)) =>
                  /\ NewEntry(t).req = sb[call[t].arg].total_zombie_tree
                                         + sb[call[t].arg].total_ext_node
                  /\ f3fs_list_lock # t /\ f3fs_list_lock' # t
                  /\ UNCHANGED f3fs_list
            /\ (call[t].op = "leave" /\ ~call[t].done /\ call'[t].done) =>
                  /\ f3fs_list_lock = NoThread
                  /\ Registry' = SelectSeq(Registry,
                                           LAMBDA x : x # call[t].arg)]_vars

\* leave has drained the objects the extent cache held, two or more, and is
\* about to unlink the record, which a running count has met on the list and
\* skipped
C24_Witness ==
    \E t \in Pair : \E u \in Pair :
        /\ call[u].op = "leave" /\ th[u].pc = "l_lock"
        /\ Len(log[u]) = 1 /\ log[u][1].op = "extent"
        /\ log[u][1].req >= 2 /\ log[u][1].got = log[u][1].req
        /\ CountExtentCache(call[u].arg) = 0
        /\ call[t].op = "count" /\ ~call[t].done
        /\ call[u].arg \in Skipped(t) /\ call[u].arg \in Members

\* the step in which walker t skips a record, and the thread that holds the
\* record's gate at that step
Skips(t) == WalkerCall(t) /\ Appended(t) /\ NewEntry(t).op = "skip"
GateHolder(t) == sb[NewEntry(t).sbi].umount_mutex

\* thread u is a count between taking and releasing the gate of record s
CountActs(u, s) ==
    call[u].op = "count" /\ th[u].pc \in {"c_count", "c_relock"} /\ th[u].p = s

\* C25 as stated: meaning of a failed gate acquisition.  Whenever a count or
\* a scan skips a record, an unmount holds the record's gate: the record is
\* being torn down.
C25_SkipMeansTeardown ==
    [][\A t \in Threads :
          Skips(t) => /\ GateHolder(t) \in Threads \ {t}
                      /\ call[GateHolder(t)].op = "leave"
                      /\ life[NewEntry(t).sbi] = "umounting"]_vars

\* C25 (amended): whenever a count or a scan skips a record, another thread
\* holds the record's gate: the unmount that tears the record down, or a
\* count or a scan that is processing the record; a record whose gate nobody
\* holds is never skipped.
C25_SkipMeansHeld ==
    [][\A t \in Threads :
          Skips(t) =>
              LET s == NewEntry(t).sbi
                  u == GateHolder(t) IN
              /\ u \in Threads \ {t}
              /\ \/ LeaveActs(u, s) /\ life[s] = "umounting"
                 \/ ScanActs(u, s) /\ life[s] = "mounted"
                 \/ CountActs(u, s) /\ life[s] = "mounted"]_vars

\* with no unmount begun, a count has just skipped a record that a scan is
\* shrinking
C25_Witness ==
    \E t \in Pair : \E u \in Pair :
        /\ \A s \in Sbs : life[s] \notin {"umounting", "gone"}
        /\ call[t].op = "count" /\ th[t].pc = "c_loop"
        /\ Len(log[t]) >= 1 /\ log[t][Len(log[t])].op = "skip"
        /\ ScanActs(u, log[t][Len(log[t])].sbi) /\ th[u].pc = "s_nat"

\* walker t holds the gate of the record its cursor stands at
WalkerActs(t, s) == ScanActs(t, s) \/ CountActs(t, s)

\* C26: gate release ordering.  From the step in which a count or a scan
\* takes a record's gate up to the step in which it releases it the walker
\* holds the gate and the record is on the list; the releasing step is taken
\* with f3fs_list_lock, which was free, in the walker's hand; in that step
\* the cursor goes to the successor the record has on the list of that
\* moment, and a scan also moves the record behind all others; the walker
\* still holds f3fs_list_lock after the step and has not returned: it is
\* back at the head of its loop, or a scan that met its target is at the
\* break, from where it returns in a step of its own.
C26_GateReleaseOrdering ==
    /\ [](\A t \in Threads : \A s \in Sbs :
            WalkerActs(t, s) => sb[s].umount_mutex = t /\ s \in Members)
    /\ [][\A t \in Threads : \A s \in Sbs :
            (WalkerActs(t, s) /\ ~WalkerActs(t, s)') =>
                /\ th[t].pc \in {"c_relock", "s_relock"}
                /\ f3fs_list_lock = NoThread
                /\ sb'[s].umount_mutex = NoThread
                /\ s \in Members'
                /\ f3fs_list_lock' = t /\ ~call'[t].done
                /\ th'[t].p = f3fs_list.next[s]
                /\ th'[t].pc \in {"c_loop", "s_loop", "s_break"}
                /\ th'[t].pc = "s_break"
                      <=> (call[t].op = "scan" /\ th[t].freed >= th[t].nr)
                /\ call[t].op = "scan" => Registry'[Len(Registry')] = s
                /\ call[t].op = "count" => UNCHANGED f3fs_list]_vars

\* an unmount waits for the gate of a record while a scan that has just
\* released that gate, having moved the record to the tail, walks on with
\* the spin lock in hand
C26_Witness ==
    \E t \in Pair : \E u \in Pair :
        /\ call[t].op = "scan" /\ th[t].pc = "s_loop" /\ Holds(t)
        /\ Len(Registry) = 2 /\ th[t].p = Registry[1]
        /\ ProcessedSbs(t) = <<Registry[2]>>
        /\ GateFree(Registry[2])
        /\ th[u].pc = "u_lock" /\ th[u].p = Registry[2]

\* C27: free-id count clamp.  Whatever number of free ids the unsigned
\* counter holds, the free-id count is that number minus MAX_FREE_NIDS if the
\* number is above MAX_FREE_NIDS and 0 if it is not: never negative, never
\* the large value an unsigned difference wraps to; and that is what count
\* returns for an instance that has nothing else to reclaim.
C27_FreeNidClamp ==
    LET f == sb[1].nid_cnt.FREE_NID
        expected == IF f <= MAX_FREE_NIDS THEN 0 ELSE f - MAX_FREE_NIDS
    IN
    /\ f \in 0..UIntMax
    /\ CountFreeNids(1) = expected
    /\ CountFreeNids(1) \in 0..(UIntMax - MAX_FREE_NIDS)
    /\ (call[1].op = "count" /\ call[1].done) => call[1].ret = expected

\* count returned 0 for an instance whose free nid cache is one short of the
\* watermark
C27_Witness ==
    /\ call[1].op = "count" /\ call[1].done /\ call[1].ret = 0
    /\ sb[1].nid_cnt.FREE_NID = MAX_FREE_NIDS - 1
    /\ log[1] = <<[op |-> "count", sbi |-> 1, req |-> 0, before |-> 0,
                   got |-> 0]>>

\* C28 as stated: count under concurrent scans.  Within one count invocation
\* every instance contributes to the total at most once, also while scans
\* move records to the tail.
C28_CountedAtMostOnce ==
    \A t \in Threads :
        call[t].op = "count" => \A s \in Sbs : NCounted(t, s) <= 1

\* C28 (amended): a count adds a record to its total only while it holds the
\* record's gate and the record is on the list, and it adds what the record's
\* caches hold; it adds a record it has added before only if a scan has moved
\* that record to the tail since the count last added it, so a record
\* contributes once, and once more at most for each such move.
C28_CountedAgainAfterMove ==
    /\ [](\A t \in Threads : \A s \in Sbs :
            call[t].op = "count" =>
                /\ s \in th[t].moved => NCounted(t, s) >= 1
                /\ s \in th[t].moved
                      => ~(th[t].pc = "c_relock" /\ th[t].p = s))
    /\ [][\A t \in Threads :
            (call[t].op = "count" /\ Appended(t) /\ NewEntry(t).op = "count")
                => /\ sb[NewEntry(t).sbi].umount_mutex = t
                   /\ NewEntry(t).sbi \in Members
                   /\ NewEntry(t).got = Reclaimable(NewEntry(t).sbi)
                   /\ NCounted(t, NewEntry(t).sbi) >= 1
                         => NewEntry(t).sbi \in th[t].moved
                   /\ NewEntry(t).sbi \notin th'[t].moved]_vars
    /\ [][\A t \in Threads : \A s \in Sbs :
            (s \notin th[t].moved /\ s \in th'[t].moved) =>
                \E u \in Threads \ {t} :
                    /\ call[u].op = "scan" /\ th[u].pc = "s_relock"
                    /\ th[u].p = s /\ th'[u].pc # "s_relock"
                    /\ Registry'[Len(Registry')] = s]_vars

\* a count over two records has returned more than the registry holds: it
\* counted one record three times, the scans of the other thread having moved
\* it to the tail after the first and again after the second time
C28_Witness ==
    \E t \in Pair : \E s \in Sbs :
        /\ call[t].op = "count" /\ call[t].done
        /\ Cardinality(Members) = 2 /\ s \in Members
        /\ NCounted(t, s) = 3
        /\ call[t].ret > TotalReclaimable

\* walker t stands at a record: past the spin_lock that starts its walk and
\* not yet back at the head
AtRecord(t) ==
    WalkerCall(t) /\ th[t].pc \notin {"idle", "c_lock", "s_lock"}
                  /\ th[t].p # HEAD

\* C29: walk safety against removal.  With every leave called under the
\* record's gate, the record a count or a scan stands at (whose successor it
\* reads, which it stamps, shrinks or moves to the tail) is on the list and
\* has not been unlinked; no step of a walker changes which records are on
\* the list; and a record comes onto the list by join only, so one that leave
\* has unlinked is never put back by a move to the tail.
C29_WalkSafety ==
    /\ [](\A t \in Threads :
            AtRecord(t) => /\ th[t].p \in Members
                           /\ life[th[t].p] \in {"mounted", "umounting"}
                           /\ \A u \in Threads :
                                 (call[u].op = "leave" /\ call[u].done)
                                     => call[u].arg # th[t].p)
    /\ [][(\E t \in Threads : WalkerCall(t) /\ th'[t] # th[t])
            => Members' = Members]_vars
    /\ [][\A s \in Sbs :
            (s \notin Members /\ s \in Members')
                => /\ life[s] = "joining"
                   /\ \E t \in Threads : th[t].pc = "j_lock" /\ th[t].p = s]_vars

\* leave has unlinked a record, under its gate, while a scan that skipped
\* that record earlier in its walk is about to move another one to the tail
C29_Witness ==
    \E t \in Pair : \E u \in Pair :
        /\ call[u].op = "leave" /\ call[u].done /\ th[u].pc = "u_unlock"
        /\ sb[call[u].arg].umount_mutex = u
        /\ call[t].op = "scan" /\ th[t].pc = "s_relock"
        /\ call[u].arg \in Skipped(t)
        /\ Registry = <<th[t].p>>

\* scan t has stamped record s in its running invocation
StampedBy(t, s) ==
    \/ InSeq(ProcessedSbs(t), s)
    \/ th[t].p = s /\ th[t].pc \in {"s_ext", "s_nat", "s_nid", "s_relock"}

\* the step in which scan t stops its walk on the marker test of line 90
StopsAtMarker(t) ==
    /\ Running(t) /\ th[t].pc = "s_loop" /\ th[t].p # HEAD
    /\ sb[th[t].p].shrinker_run_no = th[t].run_no
    /\ call'[t].done

\* what is common to C30 as stated and as amended: the marker 0 of a record
\* no scan has stamped equals no run number, and a scan that finds its run
\* number on the record it stands at stops there
C30_ZeroNeverMatches ==
    /\ [](\A t \in Threads : \A s \in Sbs :
            (Running(t) /\ sb[s].shrinker_run_no = 0)
                => th[t].run_no # sb[s].shrinker_run_no)
    /\ [][\A t \in Threads :
            (Running(t) /\ th[t].pc = "s_loop" /\ th[t].p # HEAD
                        /\ sb[th[t].p].shrinker_run_no = th[t].run_no
                        /\ th'[t] # th[t])
                => StopsAtMarker(t) /\ UNCHANGED <<sb, f3fs_list>>]_vars

\* C30 as stated: stale marker.  The above, and a record carries the run
\* number of a running scan only if that scan stamped it, so a scan stops on
\* the marker test only at a record it has processed itself; also after the
\* counter has wrapped.
C30_MarkerNeverStale ==
    /\ C30_ZeroNeverMatches
    /\ [](\A t \in Threads : \A s \in Members :
            (Running(t) /\ sb[s].shrinker_run_no = th[t].run_no)
                => StampedBy(t, s))
    /\ [][\A t \in Threads :
            StopsAtMarker(t) => InSeq(ProcessedSbs(t), th[t].p)]_vars

\* the run number the n-th draw gives (n >= 1): the counter goes through its
\* 2^w - 1 non-zero values over and over
RunNoOf(n) == ((n - 1) % (Pow2(RunNoBits) - 1)) + 1

\* how many draws lie between the m-th and the n-th, in either order
DrawsApart(m, n) == IF m >= n THEN m - n ELSE n - m

\* C30 (amended): the above; the n-th draw gives run number ((n - 1) mod
\* (2^w - 1)) + 1, which a scan keeps while it runs and a record keeps until
\* it is stamped again; so a record carries the run number of a running scan
\* that did not stamp it only if the draw of the scan that stamped it and the
\* draw of the running scan lie 2^w - 1 or more draws apart, whichever of the
\* two came first; scans that drew fewer draws apart never stop at each
\* other's markers.
C30_StaleOnlyAfterWrap ==
    /\ C30_ZeroNeverMatches
    /\ [](\A t \in Threads :
            Running(t) => /\ th[t].seq \in 1..drawn
                          /\ th[t].run_no = RunNoOf(th[t].seq))
    /\ [](\A s \in Sbs :
            IF sb[s].stamp_seq = 0 THEN sb[s].shrinker_run_no = 0
            ELSE /\ sb[s].stamp_seq \in 1..drawn
                 /\ sb[s].shrinker_run_no = RunNoOf(sb[s].stamp_seq))
    /\ [](\A t \in Threads : \A u \in Threads \ {t} :
            (Running(t) /\ Running(u)) => th[t].seq # th[u].seq)
    /\ [](\A t \in Threads : \A s \in Members :
            (Running(t) /\ sb[s].shrinker_run_no = th[t].run_no
                        /\ sb[s].stamp_seq # th[t].seq)
                => DrawsApart(sb[s].stamp_seq, th[t].seq)
                       >= Pow2(RunNoBits) - 1)
    /\ [](\A t \in Threads : \A s \in Members :
            (Running(t) /\ sb[s].stamp_seq = th[t].seq) => StampedBy(t, s))
    /\ [][\A t \in Threads :
            StopsAtMarker(t) =>
                \/ /\ sb[th[t].p].stamp_seq = th[t].seq
                   /\ InSeq(ProcessedSbs(t), th[t].p)
                \/ DrawsApart(sb[th[t].p].stamp_seq, th[t].seq)
                       >= Pow2(RunNoBits) - 1]_vars

\* the counter has wrapped: the last scan has drawn run number 1 again, as
\* draw 2^w, and stands, having processed nothing, at the only record, which
\* carries the 1 of the first draw; the scan of that draw has returned, and
\* the scans between found the record busy
C30_Witness ==
    \E t \in Pair : \E u \in Pair :
        /\ t # u /\ budget.scan = 0
        /\ Registry = <<1>>
        /\ sb[1].shrinker_run_no = 1 /\ shrinker_run_no = 1
        /\ sb[1].stamp_seq = 1 /\ th[t].seq = Pow2(RunNoBits)
        /\ call[u].op = "scan" /\ call[u].done /\ ProcessedSbs(u) = <<1>>
        /\ Running(t) /\ th[t].pc = "s_loop" /\ th[t].p = 1
        /\ th[t].run_no = 1 /\ log[t] = <<>>

\* the most a scan with target nr can free when no cache frees more than it
\* is asked for: nr - 1 before the last record, nr >> 1 from its extent cache
OvershootBound(nr) == (nr - 1) + (nr \div 2)

\* the most a scan with target nr can free at all: the target itself, which
\* the NAT and free-id caches may reach, or the bound above if that is more
ReturnBound(nr) == Max(nr, OvershootBound(nr))

\* what is common to C31 as stated and as amended, with caches that free at
\* most what they are asked for and a target >= 1: the freed total exceeds
\* the target only by what the extent cache of an instance visited after
\* another one returned, asked while the total was below the target, which
\* is then the last operation of the scan
OnlyLaterTier1(t) ==
    LET L == ShrinkLog(t)
        A == call[t].arg
        n == Len(L)
    IN
    /\ \A i \in 1..n : L[i].got <= L[i].req
    /\ SumGot(L) > A =>
          /\ L[n].op = "extent"
          /\ L[n].before >= 1 /\ L[n].before < A
          /\ L[n].before + L[n].got = SumGot(L)
          /\ \E j \in 1..(n - 1) : L[j].sbi # L[n].sbi
          /\ \A j \in 1..(n - 1) : L[j].before + L[j].got <= A

\* C31 as stated: overshoot bound.  With caches that free at most what they
\* are asked for, the freed total of a scan with target >= 1 never exceeds
\* (target - 1) + floor(target/2), which bounds what the scan returns; and
\* the total exceeds the target only through a tier-1 request to a later
\* instance.
C31_OvershootBound ==
    \A t \in Threads :
        (call[t].op = "scan" /\ call[t].arg >= 1
                             /\ mode \in {"exact", "fewer"}) =>
            /\ OnlyLaterTier1(t)
            /\ SumGot(ShrinkLog(t)) <= OvershootBound(call[t].arg)
            /\ call[t].done => call[t].ret <= OvershootBound(call[t].arg)

\* C31 (amended): the same with the bound max(target, (target - 1) +
\* floor(target/2)): for target 1 the bound of the statement is 0, and a scan
\* that frees the one object it was asked for returns 1; from target 2 on the
\* two bounds are the same.
C31_OvershootOrTarget ==
    \A t \in Threads :
        (call[t].op = "scan" /\ call[t].arg >= 1
                             /\ mode \in {"exact", "fewer"}) =>
            /\ OnlyLaterTier1(t)
            /\ SumGot(ShrinkLog(t)) <= ReturnBound(call[t].arg)
            /\ call[t].done => call[t].ret <= ReturnBound(call[t].arg)
            /\ call[t].arg >= 2
                  => SumGot(ShrinkLog(t)) <= OvershootBound(call[t].arg)

\* scan(4) returned 5, the bound: 3 from the first instance and then 2, all
\* that was asked, from the extent cache of the second
C31_Witness ==
    LET L == ShrinkLog(1) IN
    /\ call[1].op = "scan" /\ call[1].done /\ call[1].arg = 4
    /\ call[1].ret = OvershootBound(4) /\ call[1].ret > call[1].arg
    /\ L[Len(L)].op = "extent" /\ L[Len(L)].sbi # L[1].sbi
    /\ L[Len(L)].req = 2 /\ L[Len(L)].got = 2

\* the gates thread t holds
GatesOf(t) == {s \in Sbs : sb[s].umount_mutex = t}

\* C32: lock balance.  A count or a scan holds at most one gate, that of the
\* record it has acquired and not yet released; a scan at the break holds
\* f3fs_list_lock and no gate; a count, scan or join that has returned holds
\* neither f3fs_list_lock nor any gate; a leave that has returned does not
\* hold f3fs_list_lock, and the one gate its thread holds is the one the
\* unmount took before the call, which leave itself neither takes nor drops.
C32_LockBalance ==
    \A t \in Threads :
        /\ WalkerCall(t) =>
              /\ Cardinality(GatesOf(t)) <= 1
              /\ GatesOf(t) # {} <=> \E s \in Sbs : WalkerActs(t, s)
              /\ \A s \in GatesOf(t) : WalkerActs(t, s)
              /\ th[t].pc = "s_break" => Holds(t) /\ GatesOf(t) = {}
        /\ (call[t].op \in {"count", "scan", "join"} /\ call[t].done) =>
              /\ ~Holds(t) /\ GatesOf(t) = {}
              /\ th[t].pc = "idle"
        /\ call[t].op = "join" => GatesOf(t) = {}
        /\ call[t].op = "leave" =>
              /\ GatesOf(t) \subseteq {call[t].arg}
              /\ th[t].pc \in {"l_drain", "l_lock", "u_unlock"}
                    <=> GatesOf(t) = {call[t].arg}
              /\ ~Holds(t)
        /\ th[t].pc = "idle" => ~Holds(t) /\ GatesOf(t) = {}

\* a scan has returned through the marker test, below its target, having
\* processed both records and holding nothing, while the other thread, whose
\* scan left through the target test, holds nothing either
C32_Witness ==
    \E t \in Pair : \E u \in Pair :
        /\ t # u
        /\ call[t].op = "scan" /\ call[t].done /\ call[t].ret < call[t].arg
        /\ Len(ProcessedSbs(t)) = 2 /\ Registry = ProcessedSbs(t)
        /\ call[u].op = "scan" /\ call[u].done /\ call[u].arg >= 1
        /\ call[u].ret >= call[u].arg
        /\ f3fs_list_lock = NoThread
        /\ \A s \in Sbs : sb[s].umount_mutex = NoThread

====
